---- MODULE Spec2Model ----
(***************************************************************************)
(* HostBasedUnitTestRunner.do_post_build and the two coverage pipelines    *)
(* it drives (BaseTools/Plugin/HostBasedUnitTestRunner).                   *)
(*                                                                         *)
(* A file name is the sequence of its dot-separated segments:              *)
(* "FooTest.GTEST.X64.result.xml" is <<"FooTest","GTEST","X64","result",   *)
(* "xml">>, and a hidden name ".HidTest" is <<"", "HidTest">>.  A path in  *)
(* the architecture directory cp = BUILD_OUTPUT_BASE/<arch> is the record  *)
(* [arch, name].                                                           *)
(***************************************************************************)
EXTENDS Naturals, Sequences, FiniteSets, TLC

VARIABLES
    env,               \* thebuilder.env: the build variables (read only)
    hostOS,            \* GetHostInfo().os.upper()
    dirs,              \* arch -> the entries of BUILD_OUTPUT_BASE/<arch>
    docs,              \* arch -> the *.xml result documents in that directory
    files,             \* the coverage artifacts under WORKSPACE/Build
    shell_env,         \* shell variable -> value (<<>> when never set)
    pc,                \* position in do_post_build
    archIdx,           \* index in TARGET_ARCH.split() of the current arch
    testList,          \* the binaries of the current arch not yet run
    xml_results_list,  \* result documents globbed for `test`, not yet parsed
    test,              \* the binary whose loop body is running
    failure_count,     \* line 53
    retval,            \* <<v>> once do_post_build returned v, <<>> before
    cov,               \* the coverage pipeline's frame, kept until the loop moves on
    hist               \* history of the run (what was spawned, invoked, counted)

vars == <<env, hostOS, dirs, docs, files, shell_env, pc, archIdx, testList,
          xml_results_list, test, failure_count, retval, cov, hist>>

----------------------------------------------------------------------------
(* Bounds of the model *)

\* most entries in the whole build-output tree
MaxEntries == 2
\* most element nodes below the root of a result document
MaxNodes == 4

(* Program constants *)

\* stat.S_IEXEC, stat.S_IXGRP, stat.S_IXOTH (line 84)
S_IEXEC == 64
S_IXGRP == 8
S_IXOTH == 1

----------------------------------------------------------------------------
(* Names and glob patterns *)

Archs == {"IA32", "X64"}

\* the segments that contain the substring "Test"
HasTest(seg) == seg \in {"FooTest", "BarTest"}

\* glob never matches a name starting with "." by a pattern starting with "*"
Hidden(name) == name[1] = ""

Last(s) == s[Len(s)]

IsPrefix(p, s) == Len(p) <= Len(s) /\ SubSeq(s, 1, Len(p)) = p

IsSuffix(p, s) ==
    Len(p) <= Len(s) /\ SubSeq(s, Len(s) - Len(p) + 1, Len(s)) = p

\* "*Test*" (line 75)
MatchTest(name) ==
    ~Hidden(name) /\ \E i \in 1..Len(name) : HasTest(name[i])

\* "*Test*.exe" (lines 92, 232)
MatchTestExe(name) ==
    /\ ~Hidden(name)
    /\ Len(name) >= 2
    /\ Last(name) = "exe"
    /\ \E i \in 1..(Len(name) - 1) : HasTest(name[i])

\* "*.result.xml" (line 70)
MatchResultXml(name) ==
    /\ ~Hidden(name)
    /\ Len(name) >= 3
    /\ IsSuffix(<<"result", "xml">>, name)

\* test + ".*." + arch + ".result.xml" (line 125): the test path is a literal
\* prefix and "*" stands for one or more whole segments
MatchResultOf(t, arch, name) ==
    /\ IsPrefix(t, name)
    /\ IsSuffix(<<arch, "result", "xml">>, name)
    /\ Len(name) >= Len(t) + 4

\* test + ".GTEST." + arch + ".result.xml" (line 114)
GtestName(t, arch) == t \o <<"GTEST", arch, "result", "xml">>

\* test + ".CMOCKA.%g." + arch + ".result.xml" with %g the group (line 111)
CmockaName(t, g, arch) == t \o <<"CMOCKA", g, arch, "result", "xml">>

----------------------------------------------------------------------------
(* Directory entries: os.path.isfile and os.stat().st_mode *)

Kinds == {"file", "dir"}

\* rw-r--r--, rwxr--r--, rw-r-xr--, rw-r--r-x, rwxr-xr-x
Modes == {420, 484, 428, 421, 493}

\* the names a build may leave in an architecture directory
BinNames ==
    { <<"FooTest">>, <<"BarTest", "exe">>, <<"", "FooTest">>, <<"lib", "so">> }

\* n & bit # 0, for bit a power of two
Bit(n, bit) == (n \div bit) % 2 = 1

OwnerExecOnly(e) == Bit(e.mode, S_IEXEC)

\* os.stat(p).st_mode & (stat.S_IEXEC | stat.S_IXGRP | stat.S_IXOTH) != 0

AnyExec(e) == Bit(e.mode, S_IEXEC) \/ Bit(e.mode, S_IXGRP) \/ Bit(e.mode, S_IXOTH)

\* os.path.isfile(p)
IsFile(e) == e.kind = "file"

\* every ordering of a finite set: glob returns its matches in any order
Orderings(S) ==
    { s \in [1..Cardinality(S) -> S] : \A i, j \in 1..Cardinality(S) :
                                           s[i] = s[j] => i = j }

\* lines 76-89: the entries the filtering loop keeps, in the glob's order
KeepsOwnerExec(e) == IsFile(e) /\ OwnerExecOnly(e)

Keeps(e) == IsFile(e) /\ AnyExec(e)

FilterLinux(list) == SelectSeq(list, Keeps)

\* lines 75, 92: the two globs of the architecture directory
GlobLinux(dir) == { e \in dir : MatchTest(e.name) }

GlobWindows(dir) == { e \in dir : MatchTestExe(e.name) }

\* lines 74-92: the test lists discovery may end with on a supported OS
DiscoverLists(os, dir) ==
    IF os = "LINUX"
    THEN { FilterLinux(l) : l \in Orderings(GlobLinux(dir)) }
    ELSE Orderings(GlobWindows(dir))

\* lines 74, 91, 93-94
SupportedAny(os) == TRUE

SupportedOS(os) == os \in {"LINUX", "WINDOWS"}

----------------------------------------------------------------------------
(* Result documents.  A document that parses is the root element and n    *)
(* element nodes below it: node i has parent[i] < i (0 is the root), a     *)
(* tag, and has or lacks a `name` attribute.  A document is the record     *)
(* [name, wf, tree, fresh]: wf is whether the file is well-formed XML, and *)
(* fresh whether it was written during this run.                           *)

Tags == {"failure", "other"}

ParentMaps(n) == { p \in [1..n -> 0..(n - 1)] : \A i \in 1..n : p[i] < i }

TreesOfSize(n) ==
    { [n |-> n, parent |-> p, tag |-> t, named |-> a] :
        p \in ParentMaps(n), t \in [1..n -> Tags], a \in [1..n -> BOOLEAN] }

RECURSIVE Depth(_, _)
Depth(t, i) == IF t.parent[i] = 0 THEN 1 ELSE 1 + Depth(t, t.parent[i])

\* every `failure` element below a suite, whatever its depth
CountedBelowSuite(t) == { i \in 1..t.n : t.parent[i] # 0 /\ t.tag[i] = "failure" }

\* lines 130-133: for suite in root, for case in suite, for result in case,
\* result.tag == 'failure'
Counted(t) == { i \in 1..t.n : Depth(t, i) = 3 /\ t.tag[i] = "failure" }

\* line 137: case.attrib['name'] raises KeyError when the case has no name
NameMissing(t) == \E i \in Counted(t) : ~t.named[t.parent[i]]

\* a malformed document taken for one failure, the rest going on
ParseResultSoft(d) ==
    IF ~d.wf THEN [raised |-> FALSE, count |-> 1, logged |-> {}]
    ELSE IF NameMissing(d.tree) THEN [raised |-> TRUE, count |-> 0, logged |-> {}]
    ELSE [ raised |-> FALSE,
           count  |-> Cardinality(Counted(d.tree)),
           logged |-> { <<d.tree.parent[i], i>> : i \in Counted(d.tree) } ]

\* lines 128-138 for one document: ElementTree.parse raises on a malformed
\* file and line 137 may raise KeyError; otherwise the failures counted and
\* the (case, result) pairs logged
ParseResult(d) ==
    IF ~d.wf \/ NameMissing(d.tree)
    THEN [raised |-> TRUE, count |-> 0, logged |-> {}]
    ELSE [ raised |-> FALSE,
           count  |-> Cardinality(Counted(d.tree)),
           logged |-> { <<d.tree.parent[i], i>> : i \in Counted(d.tree) } ]

\* the documents the main specification lets a test binary write
TreeOk == [n |-> 2, parent |-> <<0, 1>>, tag |-> <<"other", "other">>,
           named |-> <<TRUE, TRUE>>]

TreeFail == [n |-> 3, parent |-> <<0, 1, 2>>,
             tag |-> <<"other", "other", "failure">>,
             named |-> <<TRUE, TRUE, TRUE>>]

EmptyTree == [n |-> 0, parent |-> <<>>, tag |-> <<>>, named |-> <<>>]

\* [wf, tree]: a passing document, a failing one, and one that does not parse
MainContents ==
    { [wf |-> TRUE, tree |-> TreeOk], [wf |-> TRUE, tree |-> TreeFail],
      [wf |-> FALSE, tree |-> EmptyTree] }

Groups == {"g1"}

\* the names a binary run with CMOCKA_XML_FILE and GTEST_OUTPUT set for
\* (t, arch) writes its result document under
ResultNames(t, arch) ==
    {GtestName(t, arch)} \cup { CmockaName(t, g, arch) : g \in Groups }

----------------------------------------------------------------------------
(* The inputs of a run *)

\* TARGET_ARCH.split(): no architecture, one, two
TargetArchLists == { <<>>, <<"X64">>, <<"IA32", "X64">> }

\* the build variables; TOOL_CHAIN_TAG is read only when coverage is on
\* (line 140) and neither is read in a gated run (line 45), so one value of
\* the variables that are not read stands for all
Envs ==
    { e \in [ CI_BUILD_TYPE  : {"host_unit_test", "cross_platform"},
              TARGET_ARCH    : TargetArchLists,
              CODE_COVERAGE  : {"TRUE", "FALSE"},
              TOOL_CHAIN_TAG : {"GCC5", "VS2019", "CLANGPDB"} ] :
        /\ e.CODE_COVERAGE = "FALSE" => e.TOOL_CHAIN_TAG = "GCC5"
        /\ e.CI_BUILD_TYPE # "host_unit_test" =>
              e.CODE_COVERAGE = "TRUE" /\ e.TOOL_CHAIN_TAG = "GCC5" }

HostOSes == {"LINUX", "WINDOWS", "DARWIN"}

\* exit codes of a spawned process (RunCmd's return value)
ExitCodes == {0, 2}

ShellVars ==
    { "GTEST_CATCH_EXCEPTIONS", "ASAN_OPTIONS", "CMOCKA_MESSAGE_OUTPUT",
      "CMOCKA_XML_FILE", "GTEST_OUTPUT" }

\* the entries the main specification puts in an architecture directory
MainEntries ==
    { [name |-> <<"FooTest">>,        kind |-> "file", mode |-> 493],
      [name |-> <<"FooTest">>,        kind |-> "file", mode |-> 420],
      [name |-> <<"FooTest">>,        kind |-> "dir",  mode |-> 493],
      [name |-> <<"BarTest", "exe">>, kind |-> "file", mode |-> 484],
      [name |-> <<"", "FooTest">>,    kind |-> "file", mode |-> 493],
      [name |-> <<"lib", "so">>,      kind |-> "file", mode |-> 493] }

\* the result documents an earlier run may have left in directory `a`
StaleDocs(a) ==
    { [name |-> GtestName(<<"FooTest">>, a), wf |-> TRUE, tree |-> TreeFail,
       fresh |-> FALSE],
      [name |-> CmockaName(<<"FooTest">>, "g1", a), wf |-> TRUE,
       tree |-> TreeFail, fresh |-> FALSE],
      [name |-> <<"", "old", "result", "xml">>, wf |-> TRUE, tree |-> TreeFail,
       fresh |-> FALSE] }

\* the <test>.cov snapshots an earlier build may have left under
\* WORKSPACE/Build: one of this package, one of another package
StaleCovs ==
    { [arch |-> "X64", name |-> <<"BarTest", "exe">>],
      [arch |-> "OtherPkg", name |-> <<"BarTest", "exe">>] }

UniqueNames(S) == \A x, y \in S : x.name = y.name => x = y

\* the subsets of S of at most k elements
RECURSIVE SubsetsUpTo(_, _)
SubsetsUpTo(S, k) ==
    IF k = 0 THEN {{}}
    ELSE LET R == SubsetsUpTo(S, k - 1)
         IN R \cup { T \cup {x} : T \in R, x \in S }

BinItems == Archs \X MainEntries

DocItems == UNION { { <<a, d>> : d \in StaleDocs(a) } : a \in Archs }

\* the second components of the pairs of S whose first is a
At(S, a) == { x[2] : x \in { y \in S : y[1] = a } }

\* [bins, stale, covs]: at most MaxEntries files in the whole tree
InitTrees ==
    { [bins |-> [a \in Archs |-> At(t[1], a)],
       stale |-> [a \in Archs |-> At(t[2], a)],
       covs |-> t[3]] :
        t \in { u \in SubsetsUpTo(BinItems, MaxEntries)
                      \X SubsetsUpTo(DocItems, MaxEntries)
                      \X SubsetsUpTo(StaleCovs, MaxEntries) :
                  /\ Cardinality(u[1]) + Cardinality(u[2]) + Cardinality(u[3])
                       <= MaxEntries
                  /\ \A a \in Archs : UniqueNames(At(u[1], a)) } }

\* BUILD_OUTPUT_BASE/coverage.cov: whether the file exists and the
\* snapshots whose content it holds
NoAggregate == [exists |-> FALSE, has |-> {}]

\* an aggregate an earlier run left
OldAggregate == [exists |-> TRUE, has |-> { <<"old">> }]

\* no coverage pipeline was called for the current architecture
NoCov ==
    [ kind |-> "none", stage |-> "", log |-> <<>>, ret |-> <<>>, base |-> 0,
      testList |-> <<>>, total |-> FALSE, covList |-> <<>> ]

NoTest == [name |-> <<>>, kind |-> "file", mode |-> 0]

Init ==
    /\ env \in Envs
    /\ hostOS \in HostOSes
    /\ \E t \in InitTrees :
         /\ dirs = t.bins
         /\ docs = t.stale
         /\ files = [covs |-> t.covs, wsxml |-> "stale", pkgcov |-> NoAggregate]
    /\ shell_env = [v \in ShellVars |-> <<>>]
    /\ pc = "start"
    /\ archIdx = 1
    /\ testList = <<>>
    /\ xml_results_list = <<>>
    /\ test = NoTest
    /\ failure_count = 0
    /\ retval = <<>>
    /\ cov = NoCov
    /\ hist = [ docs0    |-> docs,
                covs0    |-> files.covs,
                wsxml0   |-> files.wsxml,
                pkgcov0  |-> files.pkgcov,
                runs     |-> <<>>,
                archFail |-> [i \in 1..Len(env.TARGET_ARCH) |-> 0],
                emptyAt  |-> {},
                found    |-> [i \in 1..Len(env.TARGET_ARCH) |-> <<>>],
                tools    |-> [i \in 1..Len(env.TARGET_ARCH) |-> {}],
                logged   |-> {} ]

----------------------------------------------------------------------------
(* do_post_build, lines 33-152 *)

arch == env.TARGET_ARCH[archIdx]

\* the history with k more failures counted for the current architecture
HistCount(h, k) == [h EXCEPT !.archFail[archIdx] = @ + k]

\* the history with one more command of `tool` invoked
HistTool(h, tool) == [h EXCEPT !.tools[archIdx] = @ \cup {tool}]

\* line 45: `if ci_type != 'host_unit_test'`
GatedInverted(ci_type) == ci_type = "host_unit_test"

Gated(ci_type) == ci_type # "host_unit_test"

\* lines 44-62: the CI_BUILD_TYPE gate, then the three framework toggles

Enter ==
    /\ pc = "start"
    /\ IF Gated(env.CI_BUILD_TYPE)
       THEN /\ retval' = <<0>>
            /\ pc' = "returned"
            /\ UNCHANGED shell_env
       ELSE /\ shell_env' = [shell_env EXCEPT
                               !["GTEST_CATCH_EXCEPTIONS"] = <<"0">>,
                               !["ASAN_OPTIONS"] = <<"detect_leaks=0">>,
                               !["CMOCKA_MESSAGE_OUTPUT"] = <<"xml">>]
            /\ pc' = "arch"
            /\ UNCHANGED retval
    /\ UNCHANGED <<env, hostOS, dirs, docs, files, archIdx, testList,
                   xml_results_list, test, failure_count, cov, hist>>

\* line 152: the for loop over the architectures ran out
ReturnCount ==
    /\ pc = "arch"
    /\ archIdx > Len(env.TARGET_ARCH)
    /\ retval' = <<failure_count>>
    /\ pc' = "returned"
    /\ cov' = NoCov
    /\ UNCHANGED <<env, hostOS, dirs, docs, files, shell_env, archIdx, testList,
                   xml_results_list, test, failure_count, hist>>

\* lines 70-71: the documents left once every *.result.xml is removed
ClearedGtestOnly(ds) ==
    { d \in ds : ~(MatchResultXml(d.name)
                    /\ \E i \in 1..Len(d.name) : d.name[i] = "GTEST") }

Cleared(ds) == { d \in ds : ~MatchResultXml(d.name) }

\* lines 64-71: the next architecture; its old *.result.xml files are removed

ClearStale ==
    /\ pc = "arch"
    /\ archIdx <= Len(env.TARGET_ARCH)
    /\ docs' = [docs EXCEPT ![arch] = Cleared(@)]
    /\ pc' = "discover"
    /\ cov' = NoCov
    /\ UNCHANGED <<env, hostOS, dirs, files, shell_env, archIdx, testList,
                   xml_results_list, test, failure_count, retval, hist>>

\* line 96: `if not testList`
NoTestsNever(l) == FALSE

NoTests(l) == l = <<>>

\* lines 74-106: discovery; another OS raises, an empty list returns 0
Discover ==
    /\ pc = "discover"
    /\ IF ~SupportedOS(hostOS)
       THEN /\ pc' = "raised"
            /\ UNCHANGED <<testList, retval, hist>>
       ELSE \E l \in DiscoverLists(hostOS, dirs[arch]) :
              /\ hist' = [hist EXCEPT
                            !.emptyAt = IF l = <<>> THEN @ \cup {archIdx} ELSE @,
                            !.found[archIdx] = l]
              /\ IF NoTests(l)
                 THEN /\ retval' = <<0>>
                      /\ pc' = "returned"
                      /\ UNCHANGED testList
                 ELSE /\ testList' = l
                      /\ pc' = "tests"
                      /\ UNCHANGED retval
    /\ UNCHANGED <<env, hostOS, dirs, docs, files, shell_env, archIdx,
                   xml_results_list, test, failure_count, cov>>

\* what a spawned test binary may leave on disk: nothing, or one result
\* document under one of the names its environment configures: a gtest
\* binary that exits 0 any of the three contents, a cmocka one and a
\* binary that exits non-zero a document with a failure
ChildWrites(t, a, ret) ==
    {{}} \cup
    { { [name |-> GtestName(t, a), wf |-> c.wf, tree |-> c.tree,
         fresh |-> TRUE] } :
        c \in IF ret = 0 THEN MainContents
              ELSE { [wf |-> TRUE, tree |-> TreeFail] } } \cup
    { { [name |-> n, wf |-> TRUE, tree |-> TreeFail, fresh |-> TRUE] } :
        n \in IF ret = 0 THEN ResultNames(t, a) \ {GtestName(t, a)} ELSE {} }

\* the directory's documents after the child wrote `written`
Overwrite(ds, written) ==
    { d \in ds : \A w \in written : w.name # d.name } \cup written

\* line 118: `if ret != 0`
TestFailedIfOne(ret) == ret = 1

TestFailed(ret) == ret # 0

\* lines 125-126: the result documents globbed for test `t`
ResultsOf(t, a, ds) == { d \in ds : MatchResultOf(t, a, d.name) }

\* line 108: `for test in testList` goes on with the tests after this one
NextTestsNone(l) == <<>>

NextTests(l) == Tail(l)

\* lines 108-126: one test binary is configured and run; a non-zero exit is
\* counted, a zero exit globs the binary's result documents
RunTest ==
    /\ pc = "tests"
    /\ testList # <<>>
    /\ LET t == Head(testList) IN
       /\ test' = t
       /\ testList' = NextTests(testList)
       /\ shell_env' = [shell_env EXCEPT
              !["CMOCKA_XML_FILE"] =
                  <<arch>> \o t.name \o <<"CMOCKA", "%g", arch, "result", "xml">>,
              !["GTEST_OUTPUT"] =
                  <<"xml:", arch>> \o t.name \o <<"GTEST", arch, "result", "xml">>]
       /\ \E ret \in ExitCodes :
          \E written \in ChildWrites(t.name, arch, ret) :
            \* a directory cannot be executed
            /\ ~IsFile(t) => (ret # 0 /\ written = {})
            /\ docs' = [docs EXCEPT ![arch] = Overwrite(@, written)]
            /\ IF TestFailed(ret)
               THEN /\ failure_count' = failure_count + 1
                    /\ xml_results_list' = <<>>
                    /\ pc' = "tests"
               ELSE /\ failure_count' = failure_count
                    /\ \E l \in Orderings(ResultsOf(t.name, arch, docs'[arch])) :
                         /\ xml_results_list' = l
                         /\ pc' = IF l = <<>> THEN "tests" ELSE "parse"
            /\ hist' = HistCount(
                 [hist EXCEPT !.runs = Append(@,
                    [arch |-> arch, name |-> t.name, exit |-> ret,
                     counted |-> failure_count' - failure_count,
                     parsed |-> 0])],
                 failure_count' - failure_count)
    /\ UNCHANGED <<env, hostOS, dirs, files, archIdx, retval, cov>>

\* lines 127-138: the next globbed document is parsed and its failures counted
ParseDoc ==
    /\ pc = "parse"
    /\ LET d == Head(xml_results_list)
           r == ParseResult(d)
           n == Len(hist.runs)
       IN IF r.raised
          THEN /\ pc' = "raised"
               /\ UNCHANGED <<xml_results_list, failure_count, hist>>
          ELSE /\ failure_count' = failure_count + r.count
               /\ hist' = HistCount(
                    [hist EXCEPT !.runs[n].counted = @ + r.count,
                                 !.runs[n].parsed = @ + 1,
                                 !.logged = @ \cup r.logged], r.count)
               /\ xml_results_list' = Tail(xml_results_list)
               /\ pc' = IF Tail(xml_results_list) = <<>> THEN "tests" ELSE "parse"
    /\ UNCHANGED <<env, hostOS, dirs, docs, files, shell_env, archIdx, testList,
                   test, retval, cov>>

----------------------------------------------------------------------------
(* Coverage: lines 140-150 and the two pipelines *)

\* TOOL_CHAIN_TAG.startswith("VS") (line 145)
StartsWithVS(tag) == tag \in {"VS2017", "VS2019", "VS2022"}

\* line 232: glob of BUILD_OUTPUT_BASE/**/*Test*.exe
MsvcGlob ==
    UNION { { [arch |-> a, name |-> e.name] :
                e \in { x \in dirs[a] : MatchTestExe(x.name) } } : a \in Archs }

\* line 270: glob of WORKSPACE/Build/**/*Test*.exe.cov
SnapshotGlob(covs) == { c \in covs : MatchTestExe(c.name) }

\* lines 108-140: the loop over the tests ran out, the coverage test is next
LoopDoneAlways(l) == TRUE

LoopDone(l) == l = <<>>

\* line 140: `CODE_COVERAGE != "FALSE"`; GetValue gives None for a variable
\* that is not set
CoverageOnIfTrue(v) == v = "TRUE"

CoverageOn(v) == v # "FALSE"

\* lines 140-150: the pipeline the toolchain tag selects is entered, or
\* coverage is skipped and the loop goes on to the next architecture
CoverageDispatch ==
    /\ pc = "tests"
    /\ LoopDone(testList)
    /\ IF CoverageOn(env.CODE_COVERAGE) /\ env.TOOL_CHAIN_TAG = "GCC5"
       THEN /\ cov' = [NoCov EXCEPT !.kind = "gcc", !.stage = "version",
                                     !.base = failure_count]
            /\ pc' = "gcc"
            /\ UNCHANGED archIdx
       ELSE IF CoverageOn(env.CODE_COVERAGE) /\ StartsWithVS(env.TOOL_CHAIN_TAG)
       THEN \E l \in Orderings(MsvcGlob) :
              /\ cov' = [NoCov EXCEPT !.kind = "msvc", !.testList = l,
                           !.base = failure_count,
                           !.stage = IF l = <<>> THEN "export" ELSE "collect"]
              /\ pc' = "msvc"
              /\ UNCHANGED archIdx
       ELSE /\ cov' = NoCov
            /\ pc' = "arch"
            /\ archIdx' = archIdx + 1
    /\ UNCHANGED <<env, hostOS, dirs, docs, files, shell_env, testList,
                   xml_results_list, test, failure_count, retval, hist>>

\* the pipeline returns r to lines 142-144 / 146-148: a non-zero return is
\* one failure, and the loop goes on to the next architecture
CovReturn(c, r) ==
    /\ cov' = [c EXCEPT !.ret = <<r>>]
    /\ failure_count' = failure_count + (IF r # 0 THEN 1 ELSE 0)
    /\ archIdx' = archIdx + 1
    /\ pc' = "arch"

\* line 239: f"{testFile}.cov"
SnapshotOf(t) == <<"BUILD_OUTPUT_BASE", t.arch>> \o t.name \o <<"cov">>

\* an output path that has the architecture being processed in it
OutputOfPerArch(c) == <<"BUILD_OUTPUT_BASE", arch, "coverage.out">>

\* the file the invocation of the pipeline's current stage is told to write
\* (lines 179, 185, 191, 197, 203, 214, 222 and 239, 250, 261, 279, 289);
\* "lcov --version" writes none
OutputOf(c) ==
    IF c.kind = "gcc"
    THEN CASE c.stage = "version"  -> <<>>
           [] c.stage = "base"     -> <<"BUILD_OUTPUT_BASE", "cov-base.info">>
           [] c.stage = "test"     -> <<"BUILD_OUTPUT_BASE", "coverage-test.info">>
           [] c.stage = "total"    -> <<"BUILD_OUTPUT_BASE", "total-coverage.info">>
           [] c.stage = "compare"  -> <<"BUILD_OUTPUT_BASE", "compare.xml">>
           [] c.stage = "filtered" -> <<"BUILD_OUTPUT_BASE", "coverage.xml">>
           [] c.stage = "wsmerge"  -> <<"WORKSPACE", "Build", "all-coverage.info">>
           [] OTHER                -> <<"WORKSPACE", "Build", "coverage.xml">>
    ELSE CASE c.stage = "collect"  -> SnapshotOf(Head(c.testList))
           [] c.stage = "merge"    -> <<"BUILD_OUTPUT_BASE", "coverage.cov">>
           [] c.stage = "export"   -> <<"BUILD_OUTPUT_BASE", "coverage.xml">>
           [] c.stage = "wsmerge"  -> <<"WORKSPACE", "Build", "coverage.cov">>
           [] OTHER                -> <<"WORKSPACE", "Build", "coverage.xml">>

\* the pipeline's record with one more invocation logged
Logged(c, tool, r) ==
    [c EXCEPT !.log = Append(@, [stage |-> c.stage, tool |-> tool, ret |-> r,
                                 out |-> OutputOf(c)])]

\* the history after a pipeline returned r
HistReturn(h, tool, r) == HistCount(HistTool(h, tool), IF r # 0 THEN 1 ELSE 0)

\* what "lcov --version" may print: no "version X.Y" at all, or a major
LcovOutputs == { <<>>, <<0>>, <<1>>, <<2>> }

\* lines 154-161 and 170-174: get_lcov_version; no version, no pipeline
GetLcovVersion ==
    /\ pc = "gcc"
    /\ cov.stage = "version"
    /\ \E r \in ExitCodes : \E out \in LcovOutputs :
         LET c == Logged(cov, "lcov", r) IN
         IF r # 0
         THEN /\ CovReturn(c, 1)
              /\ hist' = HistReturn(hist, "lcov", 1)
         ELSE IF out = <<>>
         \* re.search(...) is None: .groups() raises AttributeError
         THEN /\ cov' = c
              /\ pc' = "raised"
              /\ hist' = HistTool(hist, "lcov")
              /\ UNCHANGED <<failure_count, archIdx>>
         ELSE IF out[1] = 0
         \* `not lcov_version_major` holds of a major version 0
         THEN /\ CovReturn(c, 1)
              /\ hist' = HistReturn(hist, "lcov", 1)
         ELSE /\ cov' = [c EXCEPT !.stage = "base"]
              /\ hist' = HistTool(hist, "lcov")
              /\ UNCHANGED <<failure_count, archIdx, pc>>
    /\ UNCHANGED <<env, hostOS, dirs, docs, files, shell_env, testList,
                   xml_results_list, test, retval>>

\* lines 180, 186, 192, 198, 204, 215: `if ret != 0` after a stage
GccFailed(r) == r # 0

\* lines 176-217: the six stages whose return value is checked
GccChecked == <<"base", "test", "total", "compare", "filtered", "wsmerge">>

GccTool(stage) ==
    IF stage \in {"compare", "filtered", "wsreport"} THEN "lcov_cobertura"
    ELSE "lcov"

GccAfter(stage) ==
    IF stage = "wsmerge" THEN "wsreport"
    ELSE GccChecked[1 + CHOOSE i \in 1..Len(GccChecked) : GccChecked[i] = stage]

GccStage ==
    /\ pc = "gcc"
    /\ \E i \in 1..Len(GccChecked) : cov.stage = GccChecked[i]
    /\ \E r \in ExitCodes :
         LET c == Logged(cov, GccTool(cov.stage), r) IN
         IF GccFailed(r)
         THEN /\ CovReturn(c, 1)
              /\ hist' = HistReturn(hist, GccTool(cov.stage), 1)
         ELSE /\ cov' = [c EXCEPT !.stage = GccAfter(cov.stage)]
              /\ hist' = HistTool(hist, GccTool(cov.stage))
              /\ UNCHANGED <<failure_count, archIdx, pc>>
    /\ UNCHANGED <<env, hostOS, dirs, docs, files, shell_env, testList,
                   xml_results_list, test, retval>>

\* lines 219-224: the workspace report; its return value is not looked at
GccFinalReturn(r) == 0

\* WORKSPACE/Build/coverage.xml (absent, stale: left by an earlier run, or
\* fresh: written by this run) after a report tool returned r: a run that
\* returns 0 wrote it, a failed one may have
Written(x, r) == IF r = 0 THEN {"fresh"} ELSE {x, "fresh"}

\* lines 220-222 without the removal
WsReportKept(x, r) == Written(x, r)

\* lines 220-222: the old report is removed, then lcov_cobertura runs
WsReport(x, r) == Written("absent", r)

GccWorkspaceReport ==
    /\ pc = "gcc"
    /\ cov.stage = "wsreport"
    /\ \E r \in ExitCodes :
         /\ CovReturn(Logged(cov, "lcov_cobertura", r), GccFinalReturn(r))
         /\ hist' = HistReturn(hist, "lcov_cobertura", GccFinalReturn(r))
         /\ \E x \in WsReport(files.wsxml, r) :
              files' = [files EXCEPT !.wsxml = x]
    /\ UNCHANGED <<env, hostOS, dirs, docs, shell_env, testList,
                   xml_results_list, test, retval>>

\* lines 240, 254, 265, 283, 293: `if ret != 0` after an invocation
MsvcFailedIfOne(r) == r = 1

MsvcFailed(r) == r # 0

\* the snapshots on disk after OpenCppCoverage ran for test t and returned r:
\* a run that returns 0 wrote <t>.cov, a failed one may have
CovsAfter(covs, t, r) ==
    IF r = 0 THEN { covs \cup {t} } ELSE { covs, covs \cup {t} }

\* lines 239-242: one test binary is run under OpenCppCoverage
MsvcCollect ==
    /\ pc = "msvc"
    /\ cov.stage = "collect"
    /\ \E r \in ExitCodes :
       \E cs \in CovsAfter(files.covs, Head(cov.testList), r) :
         LET c == Logged(cov, "OpenCppCoverage", r) IN
         /\ files' = [files EXCEPT !.covs = cs]
         /\ IF MsvcFailed(r)
            THEN /\ CovReturn(c, 1)
                 /\ hist' = HistReturn(hist, "OpenCppCoverage", 1)
            ELSE /\ cov' = [c EXCEPT !.stage = "merge"]
                 /\ hist' = HistTool(hist, "OpenCppCoverage")
                 /\ UNCHANGED <<failure_count, archIdx, pc>>
    /\ UNCHANGED <<env, hostOS, dirs, docs, shell_env, testList,
                   xml_results_list, test, retval>>

\* the aggregate holding the snapshot alone
MergedAlone(total, snap) == [exists |-> TRUE, has |-> {snap}]

\* lines 244-253: the aggregate OpenCppCoverage writes from the snapshot
\* and, when the file exists (line 246), the aggregate as it was
Merged(total, snap) ==
    [exists |-> TRUE,
     has |-> {snap} \cup (IF total.exists THEN total.has ELSE {})]

\* lines 244-256: the snapshot is merged into the package aggregate; a
\* merge that fails leaves the aggregate as it was
MsvcMerge ==
    /\ pc = "msvc"
    /\ cov.stage = "merge"
    /\ \E r \in ExitCodes :
         LET c == [Logged(cov, "OpenCppCoverage", r) EXCEPT !.total = TRUE] IN
         IF MsvcFailed(r)
         THEN /\ CovReturn(c, 1)
              /\ hist' = HistReturn(hist, "OpenCppCoverage", 1)
              /\ UNCHANGED files
         ELSE /\ files' = [files EXCEPT !.pkgcov =
                             Merged(@, SnapshotOf(Head(cov.testList)))]
              /\ cov' = [c EXCEPT !.testList = Tail(@),
                           !.stage = IF Tail(cov.testList) = <<>>
                                     THEN "export" ELSE "collect"]
              /\ hist' = HistTool(hist, "OpenCppCoverage")
              /\ UNCHANGED <<failure_count, archIdx, pc>>
    /\ UNCHANGED <<env, hostOS, dirs, docs, shell_env, testList,
                   xml_results_list, test, retval>>

\* lines 258-270: the package report; totalCoverageFile is unbound (an
\* UnboundLocalError) when the loop over the test binaries never ran
MsvcExport ==
    /\ pc = "msvc"
    /\ cov.stage = "export"
    /\ IF ~cov.total
       THEN /\ pc' = "raised"
            /\ UNCHANGED <<cov, failure_count, archIdx, hist>>
       ELSE \E r \in ExitCodes :
              LET c == Logged(cov, "OpenCppCoverage", r) IN
              IF MsvcFailed(r)
              THEN /\ CovReturn(c, 1)
                   /\ hist' = HistReturn(hist, "OpenCppCoverage", 1)
              ELSE \E l \in Orderings(SnapshotGlob(files.covs)) :
                     /\ cov' = [c EXCEPT !.covList = l,
                                  !.stage = IF l = <<>> THEN "wsexport"
                                            ELSE "wsmerge"]
                     /\ hist' = HistTool(hist, "OpenCppCoverage")
                     /\ UNCHANGED <<failure_count, archIdx, pc>>
    /\ UNCHANGED <<env, hostOS, dirs, docs, files, shell_env, testList,
                   xml_results_list, test, retval>>

\* lines 273-285: one snapshot is merged into the workspace aggregate
MsvcWsMerge ==
    /\ pc = "msvc"
    /\ cov.stage = "wsmerge"
    /\ \E r \in ExitCodes :
         LET c == Logged(cov, "OpenCppCoverage", r) IN
         IF MsvcFailed(r)
         THEN /\ CovReturn(c, 1)
              /\ hist' = HistReturn(hist, "OpenCppCoverage", 1)
         ELSE /\ cov' = [c EXCEPT !.covList = Tail(@),
                           !.stage = IF Tail(cov.covList) = <<>>
                                     THEN "wsexport" ELSE "wsmerge"]
              /\ hist' = HistTool(hist, "OpenCppCoverage")
              /\ UNCHANGED <<failure_count, archIdx, pc>>
    /\ UNCHANGED <<env, hostOS, dirs, docs, files, shell_env, testList,
                   xml_results_list, test, retval>>

\* lines 287-297: the workspace report
MsvcWsExport ==
    /\ pc = "msvc"
    /\ cov.stage = "wsexport"
    /\ \E r \in ExitCodes :
         /\ CovReturn(Logged(cov, "OpenCppCoverage", r), IF MsvcFailed(r) THEN 1 ELSE 0)
         /\ hist' = HistReturn(hist, "OpenCppCoverage", IF MsvcFailed(r) THEN 1 ELSE 0)
         /\ \E x \in Written(files.wsxml, r) :
              files' = [files EXCEPT !.wsxml = x]
    /\ UNCHANGED <<env, hostOS, dirs, docs, shell_env, testList,
                   xml_results_list, test, retval>>

----------------------------------------------------------------------------
(* The run of do_post_build *)

Next ==
    \/ Enter
    \/ ReturnCount
    \/ ClearStale
    \/ Discover
    \/ RunTest
    \/ ParseDoc
    \/ CoverageDispatch
    \/ GetLcovVersion
    \/ GccStage
    \/ GccWorkspaceReport
    \/ MsvcCollect
    \/ MsvcMerge
    \/ MsvcExport
    \/ MsvcWsMerge
    \/ MsvcWsExport

Spec == Init /\ [][Next]_vars

----------------------------------------------------------------------------
(* Discovery on every directory: the run stands at line 74 for X64, with   *)
(* any entries in the directory and any host                               *)

FooTestEntry == [name |-> <<"FooTest">>, kind |-> "file", mode |-> 493]

TogglesSet ==
    [v \in ShellVars |->
        IF v = "GTEST_CATCH_EXCEPTIONS" THEN <<"0">>
        ELSE IF v = "ASAN_OPTIONS" THEN <<"detect_leaks=0">>
        ELSE IF v = "CMOCKA_MESSAGE_OUTPUT" THEN <<"xml">>
        ELSE <<>>]

OneArchEnv ==
    [ CI_BUILD_TYPE |-> "host_unit_test", TARGET_ARCH |-> <<"X64">>,
      CODE_COVERAGE |-> "FALSE", TOOL_CHAIN_TAG |-> "GCC5" ]

NoHist ==
    [ docs0 |-> [a \in Archs |-> {}], covs0 |-> {}, wsxml0 |-> "absent",
      pkgcov0 |-> NoAggregate, runs |-> <<>>,
      archFail |-> <<0>>,
      emptyAt |-> {}, found |-> << <<>> >>, tools |-> <<{}>>, logged |-> {} ]

\* every directory over the names ns: each name absent or one entry
RECURSIVE DirsOver(_)
DirsOver(ns) ==
    IF ns = {} THEN {{}}
    ELSE LET n == CHOOSE m \in ns : TRUE
             R == DirsOver(ns \ {n})
         IN R \cup { d \cup {e} : d \in R,
                                  e \in [name : {n}, kind : Kinds, mode : Modes] }

AllDirs == DirsOver(BinNames)

InitDiscover ==
    /\ env = OneArchEnv
    /\ hostOS \in HostOSes
    /\ \E d \in AllDirs : dirs = [a \in Archs |-> IF a = "X64" THEN d ELSE {}]
    /\ docs = [a \in Archs |-> {}]
    /\ files = [covs |-> {}, wsxml |-> "absent", pkgcov |-> NoAggregate]
    /\ shell_env = TogglesSet
    /\ pc = "discover"
    /\ archIdx = 1
    /\ testList = <<>>
    /\ xml_results_list = <<>>
    /\ test = NoTest
    /\ failure_count = 0
    /\ retval = <<>>
    /\ cov = NoCov
    /\ hist = NoHist

SpecDiscover == InitDiscover /\ [][Discover]_vars

----------------------------------------------------------------------------
(* Parsing every document: FooTest of X64 exited 0 and the run stands at   *)
(* line 127 with the one document it wrote                                 *)

\* the document FooTest of X64 wrote: malformed, or the tree t
ParseInput(wf, t) ==
    [name |-> GtestName(<<"FooTest">>, "X64"), wf |-> wf,
     tree |-> IF wf THEN t ELSE EmptyTree, fresh |-> TRUE]

InitParse ==
    /\ env = OneArchEnv
    /\ hostOS = "LINUX"
    /\ dirs = [a \in Archs |-> IF a = "X64" THEN {FooTestEntry} ELSE {}]
    /\ \E wf \in BOOLEAN, n \in 0..MaxNodes :
         \E t \in TreesOfSize(n) :
            /\ wf \/ n = 0
            /\ docs = [a \in Archs |->
                         IF a = "X64" THEN {ParseInput(wf, t)} ELSE {}]
            /\ xml_results_list = <<ParseInput(wf, t)>>
    /\ files = [covs |-> {}, wsxml |-> "absent", pkgcov |-> NoAggregate]
    /\ shell_env = [TogglesSet EXCEPT
          !["CMOCKA_XML_FILE"] =
              <<"X64", "FooTest", "CMOCKA", "%g", "X64", "result", "xml">>,
          !["GTEST_OUTPUT"] =
              <<"xml:", "X64", "FooTest", "GTEST", "X64", "result", "xml">>]
    /\ pc = "parse"
    /\ archIdx = 1
    /\ testList = <<>>
    /\ test = FooTestEntry
    /\ failure_count = 0
    /\ retval = <<>>
    /\ cov = NoCov
    /\ hist = [NoHist EXCEPT
                 !.found = << <<FooTestEntry>> >>,
                 !.runs = << [arch |-> "X64", name |-> <<"FooTest">>, exit |-> 0,
                              counted |-> 0, parsed |-> 0] >>]

SpecParse == InitParse /\ [][ParseDoc]_vars

----------------------------------------------------------------------------
(* Coverage after the tests of X64: the run stands at line 140 with every  *)
(* discovered binary executed, under any coverage flag and toolchain tag   *)

BarTestEntry == [name |-> <<"BarTest", "exe">>, kind |-> "file", mode |-> 484]

\* CODE_COVERAGE as GetValue returns it: "None" stands for a variable that
\* is not set
CoverageFlags == {"TRUE", "FALSE", "None", "false"}

ToolChainTags == {"GCC5", "GCC", "VS2019", "VS2022", "CLANGPDB"}

CoverageEnvs ==
    [ CI_BUILD_TYPE  : {"host_unit_test"},
      TARGET_ARCH    : { <<"X64">> },
      CODE_COVERAGE  : CoverageFlags,
      TOOL_CHAIN_TAG : ToolChainTags ]

InitCoverage ==
    /\ env \in CoverageEnvs
    /\ hostOS \in {"LINUX", "WINDOWS"}
    /\ \E cs \in SUBSET StaleCovs : \E x \in {"absent", "stale"} :
       \E g \in {NoAggregate, OldAggregate} :
         files = [covs |-> cs, wsxml |-> x, pkgcov |-> g]
    /\ \E d \in SUBSET {FooTestEntry, BarTestEntry} :
       \E l \in DiscoverLists(hostOS, d) : \E fc \in {0, 1} :
       \E o \in SUBSET {BarTestEntry} :
         \* line 96: the tests ran, so discovery found at least one binary
         /\ ~NoTests(l)
         /\ dirs = [a \in Archs |-> IF a = "X64" THEN d ELSE o]
         /\ failure_count = fc
         /\ hist = [NoHist EXCEPT
              !.covs0 = files.covs,
              !.wsxml0 = files.wsxml,
              !.pkgcov0 = files.pkgcov,
              !.archFail = <<fc>>,
              !.found = <<l>>,
              !.runs = [i \in 1..Len(l) |->
                          [arch |-> "X64", name |-> l[i].name,
                           exit |-> IF i = 1 THEN 2 * fc ELSE 0,
                           counted |-> IF i = 1 THEN fc ELSE 0,
                           parsed |-> 0]]]
    /\ docs = [a \in Archs |-> {}]
    /\ shell_env = TogglesSet
    /\ pc = "tests"
    /\ archIdx = 1
    /\ testList = <<>>
    /\ xml_results_list = <<>>
    /\ test = NoTest
    /\ retval = <<>>
    /\ cov = NoCov

NextCoverage ==
    \/ CoverageDispatch
    \/ GetLcovVersion
    \/ GccStage
    \/ GccWorkspaceReport
    \/ MsvcCollect
    \/ MsvcMerge
    \/ MsvcExport
    \/ MsvcWsMerge
    \/ MsvcWsExport

SpecCoverage == InitCoverage /\ [][NextCoverage]_vars

----------------------------------------------------------------------------
(* The tests of X64 on Linux: the run stands at line 108 with the list     *)
(* discovery made of a directory where one binary's name may extend        *)
(* another's                                                               *)

FooBarEntry == [name |-> <<"FooTest", "Bar">>, kind |-> "file", mode |-> 493]

InitTests ==
    /\ env = OneArchEnv
    /\ hostOS = "LINUX"
    /\ \E d \in SUBSET {FooTestEntry, FooBarEntry, BarTestEntry} :
       \E l \in DiscoverLists(hostOS, d) :
         /\ ~NoTests(l)
         /\ dirs = [a \in Archs |-> IF a = "X64" THEN d ELSE {}]
         /\ testList = l
         /\ hist = [NoHist EXCEPT !.found = <<l>>]
    /\ docs = [a \in Archs |-> {}]
    /\ files = [covs |-> {}, wsxml |-> "absent", pkgcov |-> NoAggregate]
    /\ shell_env = TogglesSet
    /\ pc = "tests"
    /\ archIdx = 1
    /\ xml_results_list = <<>>
    /\ test = NoTest
    /\ failure_count = 0
    /\ retval = <<>>
    /\ cov = NoCov

NextTest == RunTest \/ ParseDoc

SpecTests == InitTests /\ [][NextTest]_vars

----------------------------------------------------------------------------
(* Properties *)

RECURSIVE SumSeq(_)
SumSeq(q) == IF q = <<>> THEN 0 ELSE Head(q) + SumSeq(Tail(q))

\* the run is inside the loop body of the architecture at archIdx
InArch == pc \in {"discover", "tests", "parse", "gcc", "msvc"}

\* the pattern *.result.xml, read off the name
EndsResultXml(name) ==
    /\ Len(name) >= 3
    /\ name[Len(name) - 1] = "result"
    /\ name[Len(name)] = "xml"
    /\ name[1] # ""

NoToolInvoked == \A i \in 1..Len(hist.tools) : hist.tools[i] = {}

\* C1 (as claimed): when do_post_build returns, the value returned is the sum
\* over the architectures of the failures counted for each of them.
C1_ReturnIsSumOfArchFailures ==
    pc = "returned" => retval = << SumSeq(hist.archFail) >>

\* C2: a binary that exits non-zero is counted exactly once, and none of its
\* result documents is globbed or parsed, even when one is on disk.
C2_NonZeroExitCountsOnceUnparsed ==
    /\ \A i \in 1..Len(hist.runs) :
         hist.runs[i].exit # 0 =>
            hist.runs[i].counted = 1 /\ hist.runs[i].parsed = 0
    /\ (pc = "parse" \/ xml_results_list # <<>>) =>
         hist.runs[Len(hist.runs)].exit = 0

C2_Witness ==
    /\ pc = "tests"
    /\ \E i \in 1..Len(hist.runs) :
         /\ hist.runs[i].exit # 0
         /\ \E d \in docs[hist.runs[i].arch] :
              MatchResultOf(hist.runs[i].name, hist.runs[i].arch, d.name)

\* the one document of the parse specification
TheDoc == CHOOSE d \in docs["X64"] : TRUE

\* every element tagged `failure`, at whatever depth
FailureNodes(t) == { i \in 1..t.n : t.tag[i] = "failure" }

\* the `failure` elements that are children of a case: of a child of a child
\* of the root
CaseLevelFailures(t) ==
    { i \in 1..t.n :
        /\ t.tag[i] = "failure"
        /\ t.parent[i] # 0
        /\ t.parent[t.parent[i]] # 0
        /\ t.parent[t.parent[t.parent[i]]] = 0 }

\* C3 (as claimed): parsing a well-formed document with k failure nodes, at
\* whatever depth they sit, adds exactly k to the failure count.
C3_EveryFailureNodeCounted ==
    (pc = "tests" /\ TheDoc.wf) =>
        failure_count = Cardinality(FailureNodes(TheDoc.tree))

\* C3 (amended): parsing a well-formed document whose cases with a failure
\* child all carry a name adds to the failure count exactly the number k of
\* failure nodes that are children of a case, logs each of them with its
\* case, and does not raise.
C3_CaseLevelFailuresCounted ==
    ( /\ pc # "parse"
      /\ TheDoc.wf
      /\ \A i \in CaseLevelFailures(TheDoc.tree) :
           TheDoc.tree.named[TheDoc.tree.parent[i]] ) =>
        /\ pc = "tests"
        /\ failure_count = Cardinality(CaseLevelFailures(TheDoc.tree))
        /\ hist.runs[1].counted = failure_count
        /\ hist.logged = { <<TheDoc.tree.parent[i], i>> :
                             i \in CaseLevelFailures(TheDoc.tree) }

C3_Witness ==
    /\ pc = "tests"
    /\ failure_count = 2
    /\ Cardinality(FailureNodes(TheDoc.tree)) = 3

\* C4 (as claimed): in the GCC pipeline a stage that returns non-zero is the
\* last one invoked, the pipeline returns non-zero and one failure is counted.
C4_GccFailFast ==
    cov.kind = "gcc" =>
        \A i \in 1..Len(cov.log) :
            cov.log[i].ret # 0 =>
                /\ i = Len(cov.log)
                /\ cov.ret # <<>>
                /\ cov.ret # <<0>>
                /\ failure_count = cov.base + 1

\* C5: in the MSVC pipeline an invocation that returns non-zero is the last
\* one, the pipeline returns non-zero and one failure is counted; and a
\* workspace merge or export is invoked only after the package export
\* returned zero.
C5_MsvcFailFast ==
    cov.kind = "msvc" =>
        /\ \A i \in 1..Len(cov.log) :
             cov.log[i].ret # 0 =>
                /\ i = Len(cov.log)
                /\ cov.ret # <<>>
                /\ cov.ret # <<0>>
                /\ failure_count = cov.base + 1
        /\ \A i \in 1..Len(cov.log) :
             cov.log[i].stage \in {"wsmerge", "wsexport"} =>
                \E j \in 1..(i - 1) :
                    cov.log[j].stage = "export" /\ cov.log[j].ret = 0

C5_Witness ==
    /\ cov.kind = "msvc"
    /\ Len(cov.log) >= 4
    /\ cov.log[Len(cov.log)].stage = "wsmerge"
    /\ cov.log[Len(cov.log)].ret # 0
    /\ cov.ret = <<1>>

\* C6: after the clear step and until the first binary of the architecture
\* is spawned no *.result.xml file is in its directory; every one there
\* later, and every document parsed, was written during this run.
C6_StaleResultsCleared ==
    /\ (InArch /\ \A i \in 1..Len(hist.runs) : hist.runs[i].arch # arch) =>
          \A d \in docs[arch] : ~EndsResultXml(d.name)
    /\ InArch => \A d \in docs[arch] : EndsResultXml(d.name) => d.fresh
    /\ \A i \in 1..Len(xml_results_list) : xml_results_list[i].fresh

C6_Witness ==
    /\ pc = "parse"
    /\ \E d \in hist.docs0[arch] :
         /\ EndsResultXml(d.name)
         /\ d.name = xml_results_list[1].name

\* the modes of Modes with an execute bit for the owner, the group or others
ExecModes == {484, 428, 421, 493}

NameHasTest(name) == \E i \in 1..Len(name) : HasTest(name[i])

Discovered == { testList[i] : i \in 1..Len(testList) }

\* C7 (as claimed): on Linux the discovered list holds exactly the entries
\* whose name contains Test, that are regular files and have an execute bit.
C7_PosixDiscoveryExact ==
    (hostOS = "LINUX" /\ pc # "discover") =>
        Discovered = { e \in dirs["X64"] : /\ NameHasTest(e.name)
                                           /\ e.kind = "file"
                                           /\ e.mode \in ExecModes }

\* C7 (amended): on Linux the discovered list holds, once each, exactly the
\* entries whose name contains Test and does not start with a dot, that are
\* regular files and have an execute bit; no rejection is counted as a
\* failure.
C7_PosixDiscoveryExactVisible ==
    (hostOS = "LINUX" /\ pc # "discover") =>
        /\ Discovered = { e \in dirs["X64"] : /\ NameHasTest(e.name)
                                              /\ e.name[1] # ""
                                              /\ e.kind = "file"
                                              /\ e.mode \in ExecModes }
        /\ Len(testList) = Cardinality(Discovered)
        /\ failure_count = 0
        /\ hist.archFail = <<0>>

C7_Witness ==
    /\ hostOS = "LINUX"
    /\ pc = "tests"
    /\ Len(testList) = 1
    /\ testList[1].mode = 428
    /\ \E e \in dirs["X64"] : NameHasTest(e.name) /\ e.kind = "dir"
    /\ \E e \in dirs["X64"] : ~NameHasTest(e.name) /\ e.mode = 493

\* C8: an architecture whose discovery returned an empty list has no binary
\* spawned, no coverage tool invoked and no failure counted.
C8_EmptyDiscoveryDoesNothing ==
    \A i \in hist.emptyAt :
        /\ \A j \in 1..Len(hist.runs) : hist.runs[j].arch # env.TARGET_ARCH[i]
        /\ hist.tools[i] = {}
        /\ hist.archFail[i] = 0
        /\ pc = "returned"

C8_Witness ==
    /\ hist.emptyAt = {2}
    /\ env.CODE_COVERAGE = "TRUE"
    /\ env.TOOL_CHAIN_TAG = "VS2019"
    /\ hist.tools[1] # {}
    /\ dirs["X64"] # {}

\* C9: with CI_BUILD_TYPE other than host_unit_test do_post_build returns 0
\* and sets no shell variable, removes no file, spawns no binary and invokes
\* no coverage tool.
C9_GateChangesNothing ==
    env.CI_BUILD_TYPE # "host_unit_test" =>
        /\ pc \in {"start", "returned"}
        /\ pc = "returned" => retval = <<0>>
        /\ \A v \in ShellVars : shell_env[v] = <<>>
        /\ docs = hist.docs0
        /\ files.covs = hist.covs0
        /\ hist.runs = <<>>
        /\ NoToolInvoked
        /\ failure_count = 0

C9_Witness ==
    /\ env.CI_BUILD_TYPE # "host_unit_test"
    /\ pc = "returned"
    /\ env.TARGET_ARCH = <<"IA32", "X64">>
    /\ \E d \in docs["IA32"] : EndsResultXml(d.name)
    /\ \E e \in dirs["IA32"] : e.name = <<"FooTest">> /\ e.mode = 493

\* C10 (as claimed): with the pipeline enabled on a host that is neither
\* Linux nor Windows no binary is spawned, no coverage tool is invoked, no
\* failure is counted and do_post_build returns nothing.
C10_UnsupportedOSAborts ==
    (env.CI_BUILD_TYPE = "host_unit_test" /\ hostOS \notin {"LINUX", "WINDOWS"}) =>
        /\ hist.runs = <<>>
        /\ NoToolInvoked
        /\ failure_count = 0
        /\ retval = <<>>

\* C10 (amended): the same, when TARGET_ARCH names at least one
\* architecture; the run then ends raising at the first architecture.
C10_UnsupportedOSAbortsFirstArch ==
    ( /\ env.CI_BUILD_TYPE = "host_unit_test"
      /\ hostOS \notin {"LINUX", "WINDOWS"}
      /\ env.TARGET_ARCH # <<>> ) =>
        /\ hist.runs = <<>>
        /\ NoToolInvoked
        /\ failure_count = 0
        /\ retval = <<>>
        /\ pc \in {"start", "arch", "discover", "raised"}
        /\ archIdx = 1

C10_Witness ==
    /\ pc = "raised"
    /\ hostOS = "DARWIN"
    /\ env.CODE_COVERAGE = "TRUE"
    /\ \E e \in dirs[arch] : e.name = <<"FooTest">> /\ e.mode = 493

\* the pipeline the flag and the tag select: none under the explicit value
\* FALSE, else gcc for GCC5, msvc for a tag that starts with VS, else none
Selected ==
    IF env.CODE_COVERAGE = "FALSE" THEN "none"
    ELSE IF env.TOOL_CHAIN_TAG = "GCC5" THEN "gcc"
    ELSE IF env.TOOL_CHAIN_TAG \in {"VS2019", "VS2022"} THEN "msvc"
    ELSE "none"

ToolsOf(kind) ==
    IF kind = "gcc" THEN {"lcov", "lcov_cobertura"}
    ELSE IF kind = "msvc" THEN {"OpenCppCoverage"}
    ELSE {}

\* C11: once the tests of an architecture ran, the pipeline entered is the
\* one the coverage flag and the toolchain tag select and no other: none
\* under CODE_COVERAGE = "FALSE"; otherwise the GCC pipeline for GCC5 and
\* the MSVC pipeline for a VS tag, whose tools alone are invoked; for any
\* other tag no tool is invoked and no failure is counted.
C11_OnePipelineByTag ==
    /\ cov.kind \in {"none", Selected}
    /\ pc \in {"gcc", "msvc"} => cov.kind = pc
    /\ pc = "raised" => (cov.kind = Selected /\ Selected # "none")
    /\ (pc = "arch" /\ archIdx = 2) => cov.kind = Selected
    /\ hist.tools[1] \subseteq ToolsOf(Selected)
    /\ (pc = "arch" /\ Selected = "gcc") => "lcov" \in hist.tools[1]
    /\ Selected = "none" =>
          /\ failure_count = hist.runs[1].counted
          /\ hist.archFail = <<failure_count>>

C11_Witness ==
    /\ pc = "arch"
    /\ env.CODE_COVERAGE = "None"
    /\ env.TOOL_CHAIN_TAG = "VS2022"
    /\ cov.kind = "msvc"
    /\ cov.ret = <<0>>
    /\ hist.tools[1] = {"OpenCppCoverage"}

\* architecture i was cleaned and discovered: the loop went past it, or
\* stands at it with its discovery done
Processed(i) == i < archIdx \/ i \in hist.emptyAt \/ hist.found[i] # <<>>

\* C12 (as claimed): when do_post_build returns from an enabled run, every
\* architecture of TARGET_ARCH was cleaned and discovered, also those after
\* an architecture whose discovery was empty.
C12_EveryArchProcessed ==
    (pc = "returned" /\ env.CI_BUILD_TYPE = "host_unit_test") =>
        \A i \in 1..Len(env.TARGET_ARCH) : Processed(i)

\* the names of the binaries spawned for architecture i, in spawning order
RunsOf(i) ==
    LET rs == SelectSeq(hist.runs, LAMBDA r : r.arch = env.TARGET_ARCH[i])
    IN [k \in 1..Len(rs) |-> rs[k].name]

NamesOf(l) == [k \in 1..Len(l) |-> l[k].name]

\* C13: the binaries spawned for an architecture are, in order and each
\* once, the discovered list less the tests still to run; once the loop
\* over the tests is done they are the whole discovered list, whatever
\* exits and parsed failures came before.
C13_EachBinaryOnceInOrder ==
    \A i \in 1..Len(env.TARGET_ARCH) :
        /\ i < archIdx => RunsOf(i) = NamesOf(hist.found[i])
        /\ (i = archIdx /\ pc \in {"tests", "parse", "gcc", "msvc"}) =>
              RunsOf(i) \o NamesOf(testList) = NamesOf(hist.found[i])
        /\ \A j, k \in 1..Len(RunsOf(i)) :
              RunsOf(i)[j] = RunsOf(i)[k] => j = k

C13_Witness ==
    /\ pc = "tests"
    /\ testList = <<>>
    /\ Len(hist.runs) = 2
    /\ hist.runs[1].arch = hist.runs[2].arch
    /\ hist.runs[1].exit # 0
    /\ hist.runs[2].exit = 0
    /\ hist.runs[2].counted = 1

\* the binaries discovery lists in the directory of architecture j
Listed(j) ==
    UNION { { l[k] : k \in 1..Len(l) } :
              l \in DiscoverLists(hostOS, dirs[env.TARGET_ARCH[j]]) }

Ran(j, e) ==
    \E r \in 1..Len(hist.runs) :
        hist.runs[r].arch = env.TARGET_ARCH[j] /\ hist.runs[r].name = e.name

\* C14 (as claimed): OpenCppCoverage is invoked only once the test binaries
\* of every architecture of TARGET_ARCH have been executed.
C14_MsvcAfterAllArchs ==
    (\E i \in 1..Len(hist.tools) : "OpenCppCoverage" \in hist.tools[i]) =>
        \A j \in 1..Len(env.TARGET_ARCH) : \A e \in Listed(j) : Ran(j, e)

\* C14 (amended): OpenCppCoverage is invoked for an architecture once all
\* the discovered binaries of that architecture have been executed, and
\* before any binary of a later architecture is.
C14_MsvcAfterOwnArch ==
    /\ \A i \in 1..Len(hist.tools) :
         "OpenCppCoverage" \in hist.tools[i] =>
            /\ hist.found[i] # <<>>
            /\ RunsOf(i) = NamesOf(hist.found[i])
    /\ pc = "msvc" =>
         /\ testList = <<>>
         /\ \A j \in 1..Len(env.TARGET_ARCH) : j > archIdx => RunsOf(j) = <<>>

C14_Witness ==
    /\ pc = "msvc"
    /\ archIdx = 1
    /\ Len(env.TARGET_ARCH) = 2
    /\ "OpenCppCoverage" \in hist.tools[1]
    /\ \E e \in Listed(2) : ~Ran(2, e)

\* the failures the code counts in the documents of S, each document once
RECURSIVE SumCounted(_)
SumCounted(S) ==
    IF S = {} THEN 0
    ELSE LET d == CHOOSE x \in S : TRUE
         IN Cardinality(Counted(d.tree)) + SumCounted(S \ {d})

\* the documents on disk that the binary named t wrote
WrittenBy(t) == { d \in docs["X64"] : d.name \in ResultNames(t, "X64") }

\* C15 (as claimed): between two tests, what was parsed and counted for a
\* binary that exited 0 is the documents that binary wrote and the failures
\* in them, and the failure count is one per non-zero exit plus the
\* failures of the documents of the binaries that exited 0, each once.
C15_NoResultCollision ==
    pc = "tests" =>
        /\ \A r \in 1..Len(hist.runs) :
             hist.runs[r].exit = 0 =>
                /\ hist.runs[r].parsed = Cardinality(WrittenBy(hist.runs[r].name))
                /\ hist.runs[r].counted = SumCounted(WrittenBy(hist.runs[r].name))
        /\ failure_count =
             Cardinality({ r \in 1..Len(hist.runs) : hist.runs[r].exit # 0 })
             + SumCounted(UNION { WrittenBy(hist.runs[r].name) :
                                    r \in { q \in 1..Len(hist.runs) :
                                              hist.runs[q].exit = 0 } })

\* C16: a step taken where the next document to parse is malformed ends the
\* run raising and changes nothing else (no failure counted, no document
\* parsed, no binary spawned, no tool invoked, nothing returned); and no
\* step is ever taken after the run raised.
C16_MalformedXmlAborts ==
    [][ /\ pc # "raised"
        /\ (pc = "parse" /\ ~Head(xml_results_list).wf) =>
              /\ pc' = "raised"
              /\ UNCHANGED <<env, hostOS, dirs, docs, files, shell_env, archIdx,
                             testList, xml_results_list, test, failure_count,
                             retval, cov, hist>> ]_vars

C16_Witness ==
    /\ pc = "raised"
    /\ xml_results_list # <<>>
    /\ ~Head(xml_results_list).wf
    /\ hist.runs[Len(hist.runs)].exit = 0
    /\ testList # <<>>
    /\ env.CODE_COVERAGE = "TRUE"
    /\ env.TOOL_CHAIN_TAG = "GCC5"
    /\ archIdx < Len(env.TARGET_ARCH)

\* C17: in the GCC pipeline the workspace coverage.xml an earlier run left
\* is untouched while the stages up to the workspace merge run and when one
\* of them fails; and once the pipeline returned 0 no report of an earlier
\* run is left: the file is absent or was written by the final invocation.
C17_WorkspaceReportNotStale ==
    cov.kind = "gcc" =>
        /\ pc \in {"gcc", "raised"} => files.wsxml = hist.wsxml0
        /\ cov.ret = <<1>> => files.wsxml = hist.wsxml0
        /\ cov.ret = <<0>> => files.wsxml # "stale"

C17_Witness ==
    /\ cov.kind = "gcc"
    /\ cov.ret = <<0>>
    /\ hist.wsxml0 = "stale"
    /\ files.wsxml = "fresh"
    /\ cov.log[Len(cov.log)].ret = 0

Embeds(a, path) == \E i \in 1..Len(path) : path[i] = a

\* the paths of the result documents written in the directory of a
FreshPaths(a) ==
    { <<"BUILD_OUTPUT_BASE", a>> \o d.name : d \in { x \in docs[a] : x.fresh } }

\* C18 (as claimed): every path derived while an architecture is processed
\* has that architecture as a segment: the result document paths given to
\* the test binary and the output of every coverage invocation.
C18_EveryPathEmbedsArch ==
    /\ (pc \in {"tests", "parse"} /\ RunsOf(archIdx) # <<>>) =>
          /\ Embeds(arch, shell_env["CMOCKA_XML_FILE"])
          /\ Embeds(arch, shell_env["GTEST_OUTPUT"])
    /\ pc \in {"gcc", "msvc"} =>
          \A i \in 1..Len(cov.log) :
              cov.log[i].out # <<>> => Embeds(arch, cov.log[i].out)

\* C18 (amended): the result document paths have the architecture being
\* processed as a segment and no other, and the result documents written
\* for two architectures are different paths; the coverage paths do not:
\* a snapshot has the architecture of the directory of its binary, whatever
\* architecture is being processed, and no other coverage output has any.
C18_OnlyResultPathsPerArch ==
    /\ (pc \in {"tests", "parse"} /\ RunsOf(archIdx) # <<>>) =>
          \A a \in Archs :
              /\ Embeds(a, shell_env["CMOCKA_XML_FILE"]) <=> a = arch
              /\ Embeds(a, shell_env["GTEST_OUTPUT"]) <=> a = arch
    /\ \A a, b \in Archs : a # b => FreshPaths(a) \cap FreshPaths(b) = {}
    /\ \A i \in 1..Len(cov.log) :
          IF cov.log[i].stage = "collect"
          THEN \E e \in MsvcGlob :
                  /\ cov.log[i].out =
                        <<"BUILD_OUTPUT_BASE", e.arch>> \o e.name \o <<"cov">>
                  /\ \A a \in Archs : Embeds(a, cov.log[i].out) <=> a = e.arch
          ELSE \A a \in Archs : ~Embeds(a, cov.log[i].out)

C18_Witness ==
    /\ pc = "msvc"
    /\ arch = "IA32"
    /\ FreshPaths("IA32") # {}
    /\ \E i \in 1..Len(cov.log) :
          /\ cov.log[i].stage = "collect"
          /\ Embeds("X64", cov.log[i].out)
    /\ \E i \in 1..Len(cov.log) : cov.log[i].stage = "merge"

\* the snapshots whose merge returned 0: each merge follows its collection
MergedSoFar ==
    { cov.log[i - 1].out :
        i \in { k \in 2..Len(cov.log) :
                  cov.log[k].stage = "merge" /\ cov.log[k].ret = 0 } }

\* C19: in the MSVC pipeline the package aggregate holds exactly the
\* snapshots merged so far and what the aggregate held before the first
\* merge, and the package export is invoked only after the snapshot of
\* every re-discovered binary was merged.
C19_AggregateAccumulates ==
    cov.kind = "msvc" =>
        /\ files.pkgcov.has =
              MergedSoFar \cup (IF hist.pkgcov0.exists THEN hist.pkgcov0.has ELSE {})
        /\ MergedSoFar # {} => files.pkgcov.exists
        /\ (\E i \in 1..Len(cov.log) : cov.log[i].stage = "export") =>
              MergedSoFar = { SnapshotOf(t) : t \in MsvcGlob }

C19_Witness ==
    /\ cov.kind = "msvc"
    /\ cov.stage = "export"
    /\ hist.pkgcov0 = OldAggregate
    /\ Cardinality(MergedSoFar) = 2
    /\ Cardinality(files.pkgcov.has) = 3

\* C20 (as claimed): a call of gen_code_coverage_msvc never ends raising:
\* the package aggregate path is bound when the package export is reached.
C20_MsvcAlwaysReturns ==
    cov.kind = "msvc" =>
        /\ pc # "raised"
        /\ cov.stage = "export" => cov.total

====
